---------------------------- MODULE Spec2Model ----------------------------
(***************************************************************************)
(* Model of src/src/lib/lichessStudy.js: synchronisation of a user's       *)
(* Lichess studies with the local database (fetchAllStudyChanges,          *)
(* fetchStudyUpdate, updateUnincludedStudy) and the repertoire move graph  *)
(* (includeStudy, unincludeStudy, deleteStudy).                            *)
(*                                                                         *)
(* The database tables are the variables studies (LichessStudy),           *)
(* updates (LichessStudyUpdate) and moves (Move, with its studies          *)
(* relation).  Lichess itself is the variable lichess.  Every exported     *)
(* function is an operator from the tables and its arguments to its        *)
(* outcome (what it returns or throws, and the tables it leaves), and one  *)
(* action that runs the whole function.  The functions of                  *)
(* $lib/movesUtil.js and $lib/pgnParsing.js, which are not part of the     *)
(* modelled file, are operators written from their contracts.  The columns *)
(* lastModifiedOnLichess, guessedColor and previewFen of LichessStudy,     *)
(* which the file writes and never reads, are left out.                    *)
(***************************************************************************)
EXTENDS Integers, Sequences, FiniteSets, TLC

\* Timestamps (the local clock and the Lichess updatedAt values) are 0..MaxTime.
MaxTime == 1

\* The studies; the local id of a study is its Lichess id.
Studies == {1, 2}
Times == 0..MaxTime
\* The names a study can have.
Names == {1, 2}
\* The PGN contents a study can have (see PgnText).
Pgns == {1, 2}

\* The user who owns every study of the model, and another logged-in user.
Owner == "owner"
Users == {"owner", "other"}

VARIABLES
    studies,    \* LichessStudy rows of Owner: study id -> row
    updates,    \* LichessStudyUpdate rows: study id -> row (at most one per study)
    moves,      \* Move rows of Owner: move key -> [ownMove, deleted, studies]
    lichess,    \* the studies Lichess reports: study id -> [name, updatedAt, pgn]
    now,        \* the local clock, new Date()
    lastRepertoireUpdateCheck,  \* User.lastRepertoireUpdateCheck, -1 when null
    pending     \* the calls that have read the tables and not yet written them

vars == <<studies, updates, moves, lichess, now, lastRepertoireUpdateCheck, pending>>

-----------------------------------------------------------------------------
\* Finite maps.

Put(f, k, v) == [x \in (DOMAIN f) \cup {k} |-> IF x = k THEN v ELSE f[x]]

Drop(f, k) == [x \in (DOMAIN f) \ {k} |-> f[x]]

EmptyMap == [x \in {} |-> 0]

\* The elements of a set of integers in ascending order.
RECURSIVE Ascending(_)
Ascending(S) ==
    IF S = {} THEN <<>>
    ELSE LET m == CHOOSE x \in S : \A y \in S : x <= y
         IN  <<m>> \o Ascending(S \ {m})

Range(seq) == {seq[i] : i \in 1..Len(seq)}

-----------------------------------------------------------------------------
\* PGN contents and their parsing.
\*
\* A PGN is a list of plies; positions (FENs) are numbers, white is to move in
\* the even ones.  variant tells the plies kept when only variants are asked for.

Ply(from, to, variant) == [fromFen |-> from, toFen |-> to, variant |-> variant]

PgnText(pgn) ==
    CASE pgn = 1 -> << Ply(0, 1, FALSE), Ply(1, 2, TRUE) >>
      [] pgn = 2 -> << Ply(1, 2, TRUE), Ply(0, 1, FALSE), Ply(2, 3, TRUE) >>

WhiteToMove(fen) == fen % 2 = 0

\* pgndbToMoves( pgn, repForWhite, onlyVariant ): the moves of a PGN, in order.
RECURSIVE ParsePlies(_, _, _)
ParsePlies(plies, repForWhite, onlyVariant) ==
    IF plies = <<>> THEN <<>>
    ELSE LET p == Head(plies)
             rest == ParsePlies(Tail(plies), repForWhite, onlyVariant)
         IN  IF onlyVariant /\ ~p.variant THEN rest
             ELSE << [repForWhite |-> repForWhite,
                      ownMove     |-> (WhiteToMove(p.fromFen) = repForWhite),
                      fromFen     |-> p.fromFen,
                      toFen       |-> p.toFen] >> \o rest

pgndbToMoves(pgn, repForWhite, onlyVariant) ==
    ParsePlies(PgnText(pgn), repForWhite, onlyVariant)

\* The unique key userId_repForWhite_fromFen_toFen of a move (one user).
MoveKey(m) == [repForWhite |-> m.repForWhite, fromFen |-> m.fromFen, toFen |-> m.toFen]

\* compareMovesLists( old, new ): the moves of new whose key is not in old, and
\* the moves of old whose key is not in new.
SelectSeqNotIn(seq, keys) ==
    LET Keep(m) == MoveKey(m) \notin keys IN SelectSeq(seq, Keep)

compareMovesLists(old_moves, updated_moves) ==
    [new_moves     |-> SelectSeqNotIn(updated_moves, {MoveKey(m) : m \in Range(old_moves)}),
     removed_moves |-> SelectSeqNotIn(old_moves, {MoveKey(m) : m \in Range(updated_moves)})]

NumOwn(seq) == LET Own(m) == m.ownMove IN Len(SelectSeq(seq, Own))

-----------------------------------------------------------------------------
\* The tables.

\* The tables and the clock as the calls take them: with no error and no
\* return value yet.
Tables == [studies |-> studies, updates |-> updates, moves |-> moves,
           now |-> now, err |-> "", ret |-> 0]

\* The keys of the moves connected to study s (LichessStudy.moves).
MovesOf(mv, s) == {k \in DOMAIN mv : s \in mv[k].studies}

RECURSIVE KeysToRows(_, _)
KeysToRows(mv, keys) ==
    IF keys = {} THEN <<>>
    ELSE LET k == CHOOSE x \in keys : TRUE
         IN  << [repForWhite |-> k.repForWhite, ownMove |-> mv[k].ownMove,
                 fromFen |-> k.fromFen, toFen |-> k.toFen] >>
             \o KeysToRows(mv, keys \ {k})

\* study.moves as fetchStudyUpdate selects it.
StudyMoves(mv, s) == KeysToRows(mv, MovesOf(mv, s))

\* No call is between its read and its write.  includes and unincludes are by
\* study, passes by request.
NoCalls == [includes |-> EmptyMap, unincludes |-> EmptyMap, passes |-> EmptyMap]

Init ==
    /\ studies = EmptyMap
    /\ updates = EmptyMap
    /\ moves = EmptyMap
    /\ lichess = EmptyMap
    /\ now = 0
    /\ lastRepertoireUpdateCheck = -1
    /\ pending = NoCalls

\* The outcome of a call that runs alone becomes the next state.
Commit(out) ==
    /\ studies' = out.studies
    /\ updates' = out.updates
    /\ moves' = out.moves
    /\ UNCHANGED pending

-----------------------------------------------------------------------------
\* The environment: Lichess, the clock, and the user hiding a study.

\* A study is created, edited or renamed on Lichess; its updatedAt never decreases.
LichessPublish(s, name, pgn, t) ==
    /\ s \in DOMAIN lichess => t >= lichess[s].updatedAt
    /\ lichess' = Put(lichess, s, [name |-> name, updatedAt |-> t, pgn |-> pgn])
    /\ UNCHANGED <<studies, updates, moves, now, lastRepertoireUpdateCheck, pending>>

\* A study is deleted (or made private) on Lichess.
LichessRemove(s) ==
    /\ s \in DOMAIN lichess
    /\ lichess' = Drop(lichess, s)
    /\ UNCHANGED <<studies, updates, moves, now, lastRepertoireUpdateCheck, pending>>

Tick ==
    /\ now < MaxTime
    /\ now' = now + 1
    /\ UNCHANGED <<studies, updates, moves, lichess, lastRepertoireUpdateCheck, pending>>

\* The user hides a study that is not part of the repertoire.
HideStudy(s) ==
    /\ s \in DOMAIN studies
    /\ ~studies[s].included
    /\ ~studies[s].hidden
    /\ studies' = [studies EXCEPT ![s].hidden = TRUE]
    /\ UNCHANGED <<updates, moves, lichess, now, lastRepertoireUpdateCheck, pending>>

-----------------------------------------------------------------------------
\* includeStudy

\* UpsertMove with "deleted: false" forgotten in the update.
UpsertMove_keepDeleted(mv, s, m) ==
    LET k == MoveKey(m)
    IN  IF k \in DOMAIN mv
        THEN [mv EXCEPT ![k] = [@ EXCEPT !.studies = @ \cup {s}]]
        ELSE Put(mv, k, [ownMove |-> m.ownMove, deleted |-> FALSE, studies |-> {s}])

\* One prisma.move.upsert of includeStudy: connect the study to the move with
\* this key and clear deleted, or create the move connected to the study.
UpsertMove(mv, s, m) ==
    LET k == MoveKey(m)
    IN  IF k \in DOMAIN mv
        THEN [mv EXCEPT ![k] = [@ EXCEPT !.studies = @ \cup {s}, !.deleted = FALSE]]
        ELSE Put(mv, k, [ownMove |-> m.ownMove, deleted |-> FALSE, studies |-> {s}])

RECURSIVE UpsertMoves(_, _, _)
UpsertMoves(mv, s, ms) ==
    IF ms = <<>> THEN mv
    ELSE UpsertMoves(UpsertMove(mv, s, Head(ms)), s, Tail(ms))

\* IncludeError with the test of included forgotten.
IncludeError_noIncludedTest(db, s, user_id) ==
    IF s \notin DOMAIN db.studies THEN "NotFound"
    ELSE IF Owner # user_id THEN "user ID does not match"
    ELSE IF db.studies[s].hidden THEN "can't import hidden study"
    ELSE ""

\* The error includeStudy throws before it parses, "" when it goes on.
IncludeError(db, s, user_id) ==
    IF s \notin DOMAIN db.studies THEN "NotFound"
    ELSE IF Owner # user_id THEN "user ID does not match"
    ELSE IF db.studies[s].hidden THEN "can't import hidden study"
    ELSE IF db.studies[s].included THEN "study is already included"
    ELSE ""

\* includeStudy on the tables db: what it throws (err, "" when it returns) and
\* the tables it leaves.
IncludeOutcome(db, s, user_id, repForWhite, txFails) ==
    LET err == IncludeError(db, s, user_id)
        \* STOPSHIP in the source: onlyVariant is always true
        ms == pgndbToMoves(db.studies[s].pgn, repForWhite, TRUE)
    IN  IF err # "" THEN [db EXCEPT !.err = err]
        ELSE IF txFails THEN [db EXCEPT !.err = "transaction"]
        ELSE [db EXCEPT !.moves = UpsertMoves(@, s, ms),
                        !.studies = [@ EXCEPT ![s].included = TRUE,
                                              ![s].repForWhite = repForWhite]]

includeStudy(s, user_id, repForWhite, txFails) ==
    /\ Commit(IncludeOutcome(Tables, s, user_id, repForWhite, txFails))
    /\ UNCHANGED <<lichess, now, lastRepertoireUpdateCheck>>

-----------------------------------------------------------------------------
\* unincludeStudy

\* orphanMoveSoftDeletionsQueries( study.moves ): the moves, among those of the
\* study, that no other study (or PGN) is connected to.
orphanMoveSoftDeletionsQueries(mv, keys) ==
    {k \in keys : Cardinality(mv[k].studies) = 1}

\* UnincludeTx disconnecting only the orphans instead of every move.
UnincludeTx_onlyOrphans(db, s, orphans) ==
    [db EXCEPT !.studies = [@ EXCEPT ![s].included = FALSE],
               !.moves = [k \in DOMAIN @ |->
                            IF k \in orphans
                            THEN [@[k] EXCEPT !.deleted = TRUE, !.studies = @ \ {s}]
                            ELSE @[k]]]

\* The transaction of unincludeStudy: soft-delete the orphans, clear included
\* and disconnect every move of the study (moves: { set: [] }).
UnincludeTx(db, s, orphans) ==
    [db EXCEPT !.studies = [@ EXCEPT ![s].included = FALSE],
               !.moves = [k \in DOMAIN @ |->
                            [@[k] EXCEPT !.deleted = IF k \in orphans THEN TRUE ELSE @,
                                         !.studies = @ \ {s}]]]

UnincludeError(db, s, user_id) ==
    IF s \notin DOMAIN db.studies THEN "not found"
    ELSE IF Owner # user_id THEN "Study does not belong to this account"
    ELSE ""

\* unincludeStudy on the tables db: what it throws, the tables it leaves and the
\* number it returns (ret).
UnincludeOutcome(db, s, user_id, txFails) ==
    LET err == UnincludeError(db, s, user_id)
        orphans == orphanMoveSoftDeletionsQueries(db.moves, MovesOf(db.moves, s))
        num_deleted_moves == Cardinality(orphans)
    IN  IF err # "" THEN [db EXCEPT !.err = err]
        ELSE IF txFails THEN [db EXCEPT !.err = "transaction"]
        ELSE [UnincludeTx(db, s, orphans) EXCEPT !.ret = num_deleted_moves]

unincludeStudy(s, user_id, txFails) ==
    /\ Commit(UnincludeOutcome(Tables, s, user_id, txFails))
    /\ UNCHANGED <<lichess, now, lastRepertoireUpdateCheck>>

-----------------------------------------------------------------------------
\* deleteStudy

\* prisma.LichessStudy.delete: the row goes, and with it its update row and its
\* connections to moves.
DeleteRow(db, s) ==
    [db EXCEPT !.studies = Drop(@, s),
               !.updates = Drop(@, s),
               !.moves = [k \in DOMAIN @ |-> [@[k] EXCEPT !.studies = @ \ {s}]]]

DeleteError(db, s, user_id) ==
    IF s \notin DOMAIN db.studies THEN "TypeError"
    ELSE IF Owner # user_id THEN "Study does not belong to this user"
    ELSE ""

\* DeleteOutcome with the call of unincludeStudy forgotten.
DeleteOutcome_noUninclude(db, s, user_id, failAt) ==
    LET err == DeleteError(db, s, user_id)
    IN  IF err # "" THEN [db EXCEPT !.err = err]
        ELSE IF failAt = "delete" THEN [db EXCEPT !.err = "delete"]
        ELSE DeleteRow(db, s)

\* DeleteOutcome with the final delete in the transaction of unincludeStudy:
\* when the delete fails nothing is written.
DeleteOutcome_oneTransaction(db, s, user_id, failAt) ==
    LET err == DeleteError(db, s, user_id)
        mid == IF db.studies[s].included
               THEN UnincludeOutcome(db, s, user_id, failAt = "uninclude")
               ELSE db
    IN  IF err # "" THEN [db EXCEPT !.err = err]
        ELSE IF mid.err # "" THEN mid
        ELSE IF failAt = "delete" THEN [db EXCEPT !.err = "delete"]
        ELSE DeleteRow(mid, s)

\* deleteStudy on the tables db.  failAt: "" (no storage failure), "uninclude"
\* (the transaction of unincludeStudy fails) or "delete" (the final delete fails).
DeleteOutcome(db, s, user_id, failAt) ==
    LET err == DeleteError(db, s, user_id)
        mid == IF db.studies[s].included
               THEN UnincludeOutcome(db, s, user_id, failAt = "uninclude")
               ELSE db
    IN  IF err # "" THEN [db EXCEPT !.err = err]
        ELSE IF mid.err # "" THEN mid
        ELSE IF failAt = "delete" THEN [mid EXCEPT !.err = "delete"]
        ELSE DeleteRow(mid, s)

deleteStudy(s, user_id, failAt) ==
    /\ Commit(DeleteOutcome(Tables, s, user_id, failAt))
    /\ UNCHANGED <<lichess, now, lastRepertoireUpdateCheck>>

-----------------------------------------------------------------------------
\* fetchStudy, fetchStudyUpdate, updateUnincludedStudy

\* fetchStudy( lichessId ): the PGN of the study on Lichess and its modification
\* time; it throws when Lichess has no such study or the request fails
\* (failFetch names the study whose request fails, 0 for none).
fetchStudy(s, failFetch) ==
    IF s \in DOMAIN lichess /\ s # failFetch
    THEN [ok |-> TRUE, pgn |-> lichess[s].pgn, lastModified |-> lichess[s].updatedAt]
    ELSE [ok |-> FALSE]

\* study.onlyVariant in fetchStudyUpdate: the field is not selected, so it is
\* undefined and pgndbToMoves parses every move.
StudyOnlyVariant == FALSE

\* MoveCounts comparing the two lists place by place instead of by key.
MoveCounts_byPlace(old_moves, updated_moves) ==
    LET Differ(a, b) == {i \in 1..Len(a) : i > Len(b) \/ MoveKey(a[i]) # MoveKey(b[i])}
        new == Differ(updated_moves, old_moves)
        removed == Differ(old_moves, updated_moves)
    IN  [numNewMoves        |-> Cardinality(new),
         numNewOwnMoves     |-> Cardinality({i \in new : updated_moves[i].ownMove}),
         numRemovedMoves    |-> Cardinality(removed),
         numRemovedOwnMoves |-> Cardinality({i \in removed : old_moves[i].ownMove})]

\* "find number of new/removed moves"
MoveCounts(old_moves, updated_moves) ==
    LET cmp == compareMovesLists(old_moves, updated_moves)
    IN  [numNewMoves        |-> Len(cmp.new_moves),
         numNewOwnMoves     |-> NumOwn(cmp.new_moves),
         numRemovedMoves    |-> Len(cmp.removed_moves),
         numRemovedOwnMoves |-> NumOwn(cmp.removed_moves)]

\* The row fetchStudyUpdate upserts.
UpdateRow(db, s, pgn, lastModified) ==
    LET updated_moves == pgndbToMoves(pgn, db.studies[s].repForWhite, StudyOnlyVariant)
        n == MoveCounts(StudyMoves(db.moves, s), updated_moves)
    IN  [fetched               |-> db.now,
         lastModifiedOnLichess |-> lastModified,
         numNewMoves           |-> n.numNewMoves,
         numNewOwnMoves        |-> n.numNewOwnMoves,
         numRemovedMoves       |-> n.numRemovedMoves,
         numRemovedOwnMoves    |-> n.numRemovedOwnMoves,
         pgn                   |-> pgn]

\* FetchStudyUpdateOutcome applying the update at once: the fetched moves are
\* upserted into the graph.
FetchStudyUpdateOutcome_applied(db, s, user_id, failFetch) ==
    LET f == fetchStudy(s, failFetch)
        row == UpdateRow(db, s, f.pgn, f.lastModified)
    IN  IF s \notin DOMAIN db.studies THEN [db EXCEPT !.err = "TypeError"]
        ELSE IF Owner # user_id THEN [db EXCEPT !.err = "Study does not belong to this user"]
        ELSE IF ~db.studies[s].included THEN [db EXCEPT !.err = "use updateUnincludedStudy"]
        ELSE IF ~f.ok THEN [db EXCEPT !.err = "fetch"]
        ELSE [db EXCEPT !.updates = Put(@, s, row),
                        !.moves = UpsertMoves(@, s, pgndbToMoves(f.pgn, db.studies[s].repForWhite,
                                                                 StudyOnlyVariant)),
                        !.ret = [numNewMoves        |-> row.numNewMoves,
                                 numNewOwnMoves     |-> row.numNewOwnMoves,
                                 numRemovedMoves    |-> row.numRemovedMoves,
                                 numRemovedOwnMoves |-> row.numRemovedOwnMoves]]

\* fetchStudyUpdate on the tables db: what it throws, the tables it leaves and
\* the statistics it returns.
FetchStudyUpdateOutcome(db, s, user_id, failFetch) ==
    LET f == fetchStudy(s, failFetch)
        row == UpdateRow(db, s, f.pgn, f.lastModified)
    IN  IF s \notin DOMAIN db.studies THEN [db EXCEPT !.err = "TypeError"]
        ELSE IF Owner # user_id THEN [db EXCEPT !.err = "Study does not belong to this user"]
        ELSE IF ~db.studies[s].included THEN [db EXCEPT !.err = "use updateUnincludedStudy"]
        ELSE IF ~f.ok THEN [db EXCEPT !.err = "fetch"]
        ELSE [db EXCEPT !.updates = Put(@, s, row),
                        !.ret = [numNewMoves        |-> row.numNewMoves,
                                 numNewOwnMoves     |-> row.numNewOwnMoves,
                                 numRemovedMoves    |-> row.numRemovedMoves,
                                 numRemovedOwnMoves |-> row.numRemovedOwnMoves]]

\* The exported fetchStudyUpdate, called on demand.
fetchStudyUpdate(s, user_id, failFetch) ==
    /\ Commit(FetchStudyUpdateOutcome(Tables, s, user_id, failFetch))
    /\ UNCHANGED <<lichess, now, lastRepertoireUpdateCheck>>

\* UpdateUnincludedStudyOutcome with lastFetched forgotten in the update.
UpdateUnincludedStudyOutcome_noLastFetched(db, s, user_id, failFetch) ==
    LET f == fetchStudy(s, failFetch)
    IN  IF s \notin DOMAIN db.studies THEN [db EXCEPT !.err = "TypeError"]
        ELSE IF Owner # user_id THEN [db EXCEPT !.err = "Study does not belong to this user"]
        ELSE IF db.studies[s].included THEN [db EXCEPT !.err = "use fetchStudyUpdate"]
        ELSE IF ~f.ok THEN [db EXCEPT !.err = "fetch"]
        ELSE [db EXCEPT !.studies = [@ EXCEPT ![s].pgn = f.pgn]]

\* updateUnincludedStudy on the tables db.
UpdateUnincludedStudyOutcome(db, s, user_id, failFetch) ==
    LET f == fetchStudy(s, failFetch)
    IN  IF s \notin DOMAIN db.studies THEN [db EXCEPT !.err = "TypeError"]
        ELSE IF Owner # user_id THEN [db EXCEPT !.err = "Study does not belong to this user"]
        ELSE IF db.studies[s].included THEN [db EXCEPT !.err = "use fetchStudyUpdate"]
        ELSE IF ~f.ok THEN [db EXCEPT !.err = "fetch"]
        ELSE [db EXCEPT !.studies = [@ EXCEPT ![s].lastFetched = db.now, ![s].pgn = f.pgn]]

-----------------------------------------------------------------------------
\* fetchAllStudyChanges

\* A query of the final transaction.
Query(kind, id, value) == [kind |-> kind, id |-> id, value |-> value]

\* The row prisma.LichessStudy.create inserts for a new study; the columns the
\* call does not give take their defaults.
NewStudy(l, pgn, clock) ==
    [name             |-> l.name,
     lastFetched      |-> clock,
     pgn              |-> pgn,
     included         |-> FALSE,
     hidden           |-> FALSE,
     removedOnLichess |-> FALSE,
     repForWhite      |-> FALSE]

\* RestoreQueries with the flag never cleared.
RestoreQueries_never(e, id) == <<>>

\* "ensure not removedOnLichess"
RestoreQueries(e, id) ==
    IF e.removedOnLichess THEN << Query("removedOnLichess", id, FALSE) >> ELSE <<>>

\* "update name"
RenameQueries(e, id, l) ==
    IF e.name # l.name THEN << Query("name", id, l.name) >> ELSE <<>>

\* has_newer_version_on_lichess with the comparison dropped.
has_newer_version_on_lichess_always(e, lichess_last_modified) == TRUE

has_newer_version_on_lichess(e, lichess_last_modified) ==
    e.lastFetched < lichess_last_modified

\* has_current_update_fetched with the test dropped: the update already fetched
\* is never taken into account.
has_current_update_fetched_never(ex, id, lichess_last_modified) == FALSE

\* existing_study.updates selects only the column fetched.
has_current_update_fetched(ex, id, lichess_last_modified) ==
    id \in DOMAIN ex.updates /\ ex.updates[id].fetched >= lichess_last_modified

\* RemovedQueries with the test of included forgotten: every study Lichess no
\* longer reports is deleted.
RemovedQueries_deleteIncluded(e, id) ==
    << Query("delete", id, 0) >>

\* "find deleted studies": the query for an existing study Lichess no longer
\* reports.
RemovedQueries(e, id) ==
    IF e.included
    THEN IF ~e.removedOnLichess THEN << Query("removedOnLichess", id, TRUE) >> ELSE <<>>
    ELSE << Query("delete", id, 0) >>

\* The pass as it starts on the tables db: no query, every counter 0, nothing
\* fetched, the timestamp of the user not written.
PassStart(db) ==
    [studies |-> db.studies, updates |-> db.updates, moves |-> db.moves,
     now |-> db.now, err |-> "", ret |-> 0, queries |-> <<>>, fetched |-> {}, checked |-> FALSE,
     num_new_studies |-> 0, num_updates_fetched |-> 0,
     num_renamed_studies |-> 0, num_removed_studies |-> 0]

\* The tables of a pass, as the calls take them.
PassTables(a) ==
    [studies |-> a.studies, updates |-> a.updates, moves |-> a.moves,
     now |-> a.now, err |-> "", ret |-> 0]

\* The branch for a study that is modified on Lichess: u is the outcome of the
\* function that fetches it.
AfterFetch(b, u, id) ==
    IF u.err # "" THEN [b EXCEPT !.err = u.err]
    ELSE [b EXCEPT !.studies = u.studies,
                   !.updates = u.updates,
                   !.moves = u.moves,
                   !.num_updates_fetched = @ + 1,
                   !.fetched = @ \cup {id}]

\* One round of the loop over lichess_studies.  ex is existing_studies, a is the
\* pass so far.
LichessStep(a, ex, id, failFetch) ==
    LET l == lichess[id]
        e == ex.studies[id]
        f == fetchStudy(id, failFetch)
        rn == RenameQueries(e, id, l)
        b == [a EXCEPT !.queries = @ \o RestoreQueries(e, id) \o rn,
                       !.num_renamed_studies = @ + Len(rn)]
        modified == /\ has_newer_version_on_lichess(e, l.updatedAt)
                    /\ ~has_current_update_fetched(ex, id, l.updatedAt)
    IN  IF id \notin DOMAIN ex.studies
        THEN IF ~f.ok THEN [a EXCEPT !.err = "fetch"]
             ELSE [a EXCEPT !.studies = Put(@, id, NewStudy(l, f.pgn, a.now)),
                            !.num_new_studies = @ + 1]
        ELSE IF modified /\ e.included
        THEN AfterFetch(b, FetchStudyUpdateOutcome(PassTables(b), id, Owner, failFetch), id)
        ELSE IF modified /\ ~e.hidden
        THEN AfterFetch(b, UpdateUnincludedStudyOutcome(PassTables(b), id, Owner, failFetch), id)
        ELSE b

RECURSIVE LichessLoop(_, _, _, _)
LichessLoop(a, ex, ids, failFetch) ==
    IF ids = <<>> \/ a.err # "" THEN a
    ELSE LichessLoop(LichessStep(a, ex, Head(ids), failFetch), ex, Tail(ids), failFetch)

\* RemovedStep with the counter outside the test of removedOnLichess: a study
\* already flagged is counted again.
RemovedStep_countAgain(a, ex, id) ==
    LET q == RemovedQueries(ex.studies[id], id)
    IN  IF id \in DOMAIN lichess THEN a
        ELSE [a EXCEPT !.queries = @ \o q, !.num_removed_studies = @ + 1]

\* One round of the loop over existing_studies.
RemovedStep(a, ex, id) ==
    LET q == RemovedQueries(ex.studies[id], id)
    IN  IF id \in DOMAIN lichess THEN a
        ELSE [a EXCEPT !.queries = @ \o q, !.num_removed_studies = @ + Len(q)]

RECURSIVE RemovedLoop(_, _, _)
RemovedLoop(a, ex, ids) ==
    IF ids = <<>> THEN a
    ELSE RemovedLoop(RemovedStep(a, ex, Head(ids)), ex, Tail(ids))

\* One query applied to the tables.
ApplyQuery(a, q) ==
    CASE q.kind = "removedOnLichess" ->
            [a EXCEPT !.studies = [@ EXCEPT ![q.id].removedOnLichess = q.value]]
      [] q.kind = "name" ->
            [a EXCEPT !.studies = [@ EXCEPT ![q.id].name = q.value]]
      [] q.kind = "delete" -> DeleteRow(a, q.id)

RECURSIVE ApplyQueries(_, _)
ApplyQueries(a, qs) ==
    IF qs = <<>> THEN a ELSE ApplyQueries(ApplyQuery(a, Head(qs)), Tail(qs))

\* prisma.$transaction(queries): all of the queries or none; it throws when the
\* storage fails or a query addresses a row that is gone.
Transaction(a, txFails) ==
    IF txFails \/ \E i \in 1..Len(a.queries) : a.queries[i].id \notin DOMAIN a.studies
    THEN [a EXCEPT !.err = "Exception renaming study"]
    ELSE ApplyQueries(a, a.queries)

\* What the pass returns.
PassCounts(a) ==
    [num_new_studies     |-> a.num_new_studies,
     num_updates_fetched |-> a.num_updates_fetched,
     num_renamed_studies |-> a.num_renamed_studies,
     num_removed_studies |-> a.num_removed_studies]

\* PassRun with the catch of the transaction going on instead of throwing: the
\* two counters are reset, the timestamp is written and the counts returned.
PassRun_catchGoesOn(ex, db, failFetch, txFails) ==
    LET a0 == PassStart(db)
        a1 == LichessLoop(a0, ex, Ascending(DOMAIN lichess), failFetch)
        a2 == RemovedLoop(a1, ex, Ascending(DOMAIN ex.studies))
        a3 == Transaction(a2, txFails)
        a4 == [a2 EXCEPT !.num_renamed_studies = 0, !.num_removed_studies = 0]
    IN  IF a1.err # "" THEN a1
        ELSE IF a3.err # "" THEN [a4 EXCEPT !.checked = TRUE, !.ret = PassCounts(a4)]
        ELSE [a3 EXCEPT !.checked = TRUE, !.ret = PassCounts(a3)]

\* fetchAllStudyChanges after it has read existing_studies (ex), on the tables
\* db: what it throws, the tables it leaves, the counts it returns (ret), the
\* queries it computed, the existing studies whose PGN it fetched, and whether
\* it wrote the timestamp of the user.
PassRun(ex, db, failFetch, txFails) ==
    LET a0 == PassStart(db)
        a1 == LichessLoop(a0, ex, Ascending(DOMAIN lichess), failFetch)
        a2 == RemovedLoop(a1, ex, Ascending(DOMAIN ex.studies))
        a3 == Transaction(a2, txFails)
    IN  IF a1.err # "" THEN a1
        ELSE IF a3.err # "" THEN a3
        ELSE [a3 EXCEPT !.checked = TRUE, !.ret = PassCounts(a3)]

\* fetchAllStudyChanges running alone on the tables db.
PassOutcome(db, failFetch, txFails) == PassRun(db, db, failFetch, txFails)

fetchAllStudyChanges(failFetch, txFails) ==
    LET out == PassOutcome(Tables, failFetch, txFails)
    IN  /\ Commit(out)
        /\ lastRepertoireUpdateCheck' = IF out.checked THEN now ELSE lastRepertoireUpdateCheck
        /\ UNCHANGED <<lichess, now>>

\* The test of fetchAllStudyChangesUnlessFetchedRecently: the user was never
\* checked, or was checked more than min_interval before now.
NotFetchedRecently(min_interval) ==
    \/ lastRepertoireUpdateCheck = -1
    \/ lastRepertoireUpdateCheck < now - min_interval

\* fetchAllStudyChangesUnlessFetchedRecently running alone; it returns {} and
\* writes nothing when the user was checked recently.
fetchAllStudyChangesUnlessFetchedRecently(min_interval, failFetch, txFails) ==
    IF NotFetchedRecently(min_interval)
    THEN fetchAllStudyChanges(failFetch, txFails)
    ELSE UNCHANGED vars

-----------------------------------------------------------------------------
\* Calls that overlap.  Each function awaits its first query (the read), then
\* computes, then awaits what it writes; another call can run in between.

\* includeStudy, the read: findUniqueOrThrow, the three tests and the parsing.
IncludeRead(s, repForWhite) ==
    /\ s \notin (DOMAIN pending.includes) \cup (DOMAIN pending.unincludes)
    /\ IncludeError(Tables, s, Owner) = ""
    /\ pending' = [pending EXCEPT !.includes =
                      Put(@, s, [repForWhite |-> repForWhite,
                                 moves |-> pgndbToMoves(studies[s].pgn, repForWhite, TRUE)])]
    /\ UNCHANGED <<studies, updates, moves, lichess, now, lastRepertoireUpdateCheck>>

\* includeStudy, the write: the transaction of the upserts and of the update of
\* the study; it fails as a whole when the study is gone.
IncludeWrite(s) ==
    /\ s \in DOMAIN pending.includes
    /\ IF s \in DOMAIN studies
       THEN /\ moves' = UpsertMoves(moves, s, pending.includes[s].moves)
            /\ studies' = [studies EXCEPT ![s].included = TRUE,
                                          ![s].repForWhite = pending.includes[s].repForWhite]
       ELSE UNCHANGED <<studies, moves>>
    /\ pending' = [pending EXCEPT !.includes = Drop(@, s)]
    /\ UNCHANGED <<updates, lichess, now, lastRepertoireUpdateCheck>>

\* unincludeStudy, the read: the study with its moves and their studies, the
\* two tests and the soft deletions of the orphans.
UnincludeRead(s) ==
    /\ s \notin (DOMAIN pending.includes) \cup (DOMAIN pending.unincludes)
    /\ UnincludeError(Tables, s, Owner) = ""
    /\ pending' = [pending EXCEPT !.unincludes =
                      Put(@, s, orphanMoveSoftDeletionsQueries(moves, MovesOf(moves, s)))]
    /\ UNCHANGED <<studies, updates, moves, lichess, now, lastRepertoireUpdateCheck>>

\* unincludeStudy, the write: the transaction.
UnincludeWrite(s) ==
    /\ s \in DOMAIN pending.unincludes
    /\ IF s \in DOMAIN studies
       THEN LET out == UnincludeTx(Tables, s, pending.unincludes[s])
            IN  studies' = out.studies /\ moves' = out.moves
       ELSE UNCHANGED <<studies, moves>>
    /\ pending' = [pending EXCEPT !.unincludes = Drop(@, s)]
    /\ UNCHANGED <<updates, lichess, now, lastRepertoireUpdateCheck>>

\* The requests that call fetchAllStudyChangesUnlessFetchedRecently.
Requests == {"a", "b"}

\* fetchAllStudyChangesUnlessFetchedRecently, the reads of request r: the
\* timestamp of the user, then existing_studies.
PassRead(r, min_interval) ==
    /\ r \notin DOMAIN pending.passes
    /\ NotFetchedRecently(min_interval)
    /\ pending' = [pending EXCEPT !.passes =
                      Put(@, r, [studies |-> studies, updates |-> updates])]
    /\ UNCHANGED <<studies, updates, moves, lichess, now, lastRepertoireUpdateCheck>>

\* The rest of the pass of request r: the metadata of Lichess, the two loops,
\* the transaction and the timestamp.
PassWrite(r) ==
    /\ r \in DOMAIN pending.passes
    /\ LET out == PassRun(pending.passes[r], Tables, 0, FALSE)
       IN  /\ studies' = out.studies
           /\ updates' = out.updates
           /\ moves' = out.moves
           /\ lastRepertoireUpdateCheck' =
                  IF out.checked THEN now ELSE lastRepertoireUpdateCheck
    /\ pending' = [pending EXCEPT !.passes = Drop(@, r)]
    /\ UNCHANGED <<lichess, now>>

-----------------------------------------------------------------------------
\* The calls of the program, with the inputs of a scenario: the sides a study
\* is included for, the users that call, and whether storage can fail.
Calls(sides, users, storageFails) ==
    \/ \E failFetch \in {0} \cup Studies, txFails \in storageFails :
           fetchAllStudyChanges(failFetch, txFails)
    \/ \E min_interval \in Times, failFetch \in {0} \cup Studies, txFails \in storageFails :
           fetchAllStudyChangesUnlessFetchedRecently(min_interval, failFetch, txFails)
    \/ \E s \in Studies, u \in users, fetchFails \in BOOLEAN :
           fetchStudyUpdate(s, u, IF fetchFails THEN s ELSE 0)
    \/ \E s \in Studies, u \in users, repForWhite \in sides, txFails \in storageFails :
           includeStudy(s, u, repForWhite, txFails)
    \/ \E s \in Studies, u \in users, txFails \in storageFails :
           unincludeStudy(s, u, txFails)
    \/ \E s \in Studies, u \in users,
          failAt \in {""} \cup (IF TRUE \in storageFails THEN {"uninclude", "delete"} ELSE {}) :
           deleteStudy(s, u, failAt)

\* Synchronisation: Lichess renames study 1, removes and restores both studies
\* and stamps them while the clock runs; the user hides study 2; studies are
\* included for black.
NextSync ==
    \/ \E name \in Names, t \in Times : LichessPublish(1, name, 1, t)
    \/ \E t \in Times : LichessPublish(2, 1, 1, t)
    \/ \E s \in Studies : LichessRemove(s)
    \/ Tick
    \/ HideStudy(2)
    \/ Calls({FALSE}, {Owner}, {FALSE, TRUE})

SpecSync == Init /\ [][NextSync]_vars

\* The repertoire: Lichess has study 1 with either PGN and study 2 with PGN 2,
\* newer than every local copy; the studies are included for either side,
\* unincluded and deleted, by either user; the clock stands still.
NextGraph ==
    \/ \E pgn \in Pgns : LichessPublish(1, 1, pgn, 1)
    \/ LichessPublish(2, 1, 2, 1)
    \/ \E s \in Studies : LichessRemove(s)
    \/ HideStudy(2)
    \/ Calls(BOOLEAN, Users, {FALSE, TRUE})

SpecGraph == Init /\ [][NextGraph]_vars

\* Overlapping changes of the repertoire: the two studies share a move; the
\* passes run alone, includeStudy and unincludeStudy of the owner overlap.
NextRace ==
    \/ LichessPublish(1, 1, 1, 1)
    \/ LichessPublish(2, 1, 2, 1)
    \/ fetchAllStudyChanges(0, FALSE)
    \/ \E s \in Studies : IncludeRead(s, TRUE)
    \/ \E s \in Studies : IncludeWrite(s)
    \/ \E s \in Studies : UnincludeRead(s)
    \/ \E s \in Studies : UnincludeWrite(s)

SpecRace == Init /\ [][NextRace]_vars

\* Overlapping passes: two requests run fetchAllStudyChangesUnlessFetchedRecently
\* while Lichess publishes and removes the studies, the clock runs and the
\* owner includes and unincludes studies.
NextPassRace ==
    \/ \E s \in Studies, t \in Times : LichessPublish(s, 1, s, t)
    \/ \E s \in Studies : LichessRemove(s)
    \/ Tick
    \/ \E r \in Requests, min_interval \in Times : PassRead(r, min_interval)
    \/ \E r \in Requests : PassWrite(r)
    \/ \E s \in Studies : includeStudy(s, Owner, TRUE, FALSE)
    \/ \E s \in Studies : unincludeStudy(s, Owner, FALSE)

SpecPassRace == Init /\ [][NextPassRace]_vars

-----------------------------------------------------------------------------
\* The inputs of a pass: the study whose fetch fails (0: none) and whether the
\* transaction fails.
PassInputs == [failFetch : {0} \cup Studies, txFails : BOOLEAN]

PassOf(i) == PassOutcome(Tables, i.failFetch, i.txFails)

\* C1: a pass never hard-deletes an included study that Lichess no longer
\* reports: whatever the pass's inputs, the row is there after it, unchanged but
\* for removedOnLichess, which is true when the pass returned; and every row
\* that is gone after the pass was not included.
C1_IncludedNeverHardDeleted ==
    \A i \in PassInputs :
        LET out == PassOf(i)
        IN  /\ \A s \in DOMAIN studies :
                (studies[s].included /\ s \notin DOMAIN lichess) =>
                    /\ s \in DOMAIN out.studies
                    /\ out.studies[s] =
                         [studies[s] EXCEPT !.removedOnLichess =
                                               IF out.err = "" THEN TRUE ELSE @]
            /\ \A s \in (DOMAIN studies) \ (DOMAIN out.studies) :
                ~studies[s].included /\ s \notin DOMAIN lichess

\* C1, witness: a pass has flagged an included study that Lichess no longer
\* reports, and the row is there.
C1_Witness ==
    \E s \in DOMAIN studies :
        /\ studies[s].included
        /\ studies[s].removedOnLichess
        /\ s \notin DOMAIN lichess

\* C2: a move connected to at least one study is not soft-deleted.
C2_OwnedNotDeleted ==
    \A k \in DOMAIN moves : moves[k].studies # {} => ~moves[k].deleted

\* C2, witness: study 2 was unincluded; the move it shared with study 1 is still
\* connected to study 1 and not deleted, the move it alone had is soft-deleted.
C2_Witness ==
    /\ 2 \in DOMAIN studies /\ ~studies[2].included
    /\ \E k \in DOMAIN moves : moves[k].studies = {1} /\ ~moves[k].deleted
    /\ \E k \in DOMAIN moves : moves[k].studies = {} /\ moves[k].deleted

\* C3: a move connected to no study is soft-deleted.
C3_OrphanDeleted ==
    \A k \in DOMAIN moves : moves[k].studies = {} => moves[k].deleted

\* C3, witness: there are moves, every study row is gone, and the moves are
\* all disconnected and soft-deleted.
C3_Witness ==
    /\ DOMAIN studies = {}
    /\ DOMAIN moves # {}
    /\ \A k \in DOMAIN moves : moves[k].studies = {} /\ moves[k].deleted

\* C4: a LichessStudyUpdate row exists only for a study that is included.
C4_UpdateOnlyForIncluded ==
    \A s \in DOMAIN updates : s \in DOMAIN studies /\ studies[s].included

\* C4, the path: a study that is no longer included has kept the update row
\* fetched while it was included.
C4_StaleUpdate ==
    \E s \in DOMAIN updates : s \in DOMAIN studies /\ ~studies[s].included

\* Whether a pass leaves the content of study s as it was: its PGN, its
\* lastFetched and its update row.
ContentUntouched(out, s) ==
    /\ s \notin out.fetched
    /\ out.studies[s].pgn = studies[s].pgn
    /\ out.studies[s].lastFetched = studies[s].lastFetched
    /\ s \in DOMAIN out.updates <=> s \in DOMAIN updates
    /\ s \in DOMAIN updates => out.updates[s] = updates[s]

\* C5 as stated: a pass fetches an existing study only if its lastFetched is
\* before Lichess's updatedAt and it has no update row whose
\* lastModifiedOnLichess is at or after that updatedAt.
C5_FetchOnlyIfNoUpdateModifiedSince ==
    \A i \in PassInputs : \A s \in (DOMAIN studies) \cap (DOMAIN lichess) :
        LET t == lichess[s].updatedAt
        IN  ~( /\ studies[s].lastFetched < t
               /\ ~(s \in DOMAIN updates /\ updates[s].lastModifiedOnLichess >= t) )
            => ContentUntouched(PassOf(i), s)

\* C5 as amended: a pass fetches an existing study only if its lastFetched is
\* before Lichess's updatedAt and it has no update row that was fetched at or
\* after that updatedAt.
C5_FetchOnlyIfNoUpdateFetchedSince ==
    \A i \in PassInputs : \A s \in (DOMAIN studies) \cap (DOMAIN lichess) :
        LET t == lichess[s].updatedAt
        IN  ~( /\ studies[s].lastFetched < t
               /\ ~(s \in DOMAIN updates /\ updates[s].fetched >= t) )
            => ContentUntouched(PassOf(i), s)

\* C5, witness: an included study, older than Lichess's version, has an update
\* row of that very version, fetched after it: a pass does not fetch it again.
C5_Witness ==
    \E s \in (DOMAIN studies) \cap (DOMAIN lichess) \cap (DOMAIN updates) :
        /\ studies[s].included
        /\ studies[s].lastFetched < lichess[s].updatedAt
        /\ updates[s].lastModifiedOnLichess = lichess[s].updatedAt
        /\ updates[s].fetched >= lichess[s].updatedAt
        /\ ContentUntouched(PassOutcome(Tables, 0, FALSE), s)

\* The structural update of study s is in the tables out: the name and the
\* flag of a study Lichess reports, the flag of an included study it does not
\* report, the deletion of any other.
StructuralDone(out, s) ==
    IF s \in DOMAIN lichess
    THEN /\ s \in DOMAIN out.studies
         /\ out.studies[s].name = lichess[s].name
         /\ ~out.studies[s].removedOnLichess
    ELSE IF studies[s].included
    THEN s \in DOMAIN out.studies /\ out.studies[s].removedOnLichess
    ELSE s \notin DOMAIN out.studies

\* C6: when the fetch of one study fails in a pass, the structural updates of
\* the other studies are committed all the same.
C6_FetchFailureIsolated ==
    \A d \in Studies :
        LET out == PassOutcome(Tables, d, FALSE)
        IN  out.err = "fetch" => \A s \in (DOMAIN studies) \ {d} : StructuralDone(out, s)

\* The existing studies a pass is to fetch: older than Lichess's version and
\* with no update row fetched since.
Modified(s) ==
    /\ s \in (DOMAIN studies) \cap (DOMAIN lichess)
    /\ studies[s].lastFetched < lichess[s].updatedAt
    /\ ~(s \in DOMAIN updates /\ updates[s].fetched >= lichess[s].updatedAt)

Staged == {s \in Studies : Modified(s) /\ studies[s].included}

Overwritten == {s \in Studies : Modified(s) /\ ~studies[s].included /\ ~studies[s].hidden}

\* What a pass did, read off the tables before and after it.
Inserted(out) == (DOMAIN out.studies) \ (DOMAIN studies)

Renamed(out) ==
    {s \in (DOMAIN studies) \cap (DOMAIN out.studies) : out.studies[s].name # studies[s].name}

Removed(out) ==
    ((DOMAIN studies) \ (DOMAIN out.studies))
    \cup {s \in (DOMAIN studies) \cap (DOMAIN out.studies) :
            out.studies[s].removedOnLichess /\ ~studies[s].removedOnLichess}

\* The studies of the set S have an update row fetched in this pass.
StagedNow(out, S) ==
    \A s \in S : s \in DOMAIN out.updates /\ out.updates[s].fetched = now

\* C7 as stated: a pass that returns returns the number of studies inserted, of
\* studies renamed, of studies deleted or newly flagged, and, as
\* num_updates_fetched, the number of update rows it wrote.
C7_CountsStagedOnly ==
    \A i \in PassInputs :
        LET out == PassOf(i)
        IN  out.err = "" =>
              /\ StagedNow(out, Staged)
              /\ out.ret = [num_new_studies     |-> Cardinality(Inserted(out)),
                            num_updates_fetched |-> Cardinality(Staged),
                            num_renamed_studies |-> Cardinality(Renamed(out)),
                            num_removed_studies |-> Cardinality(Removed(out))]

\* C7 as amended: num_updates_fetched is the number of update rows written plus
\* the number of studies not included whose content was overwritten.
C7_CountsStagedAndOverwritten ==
    \A i \in PassInputs :
        LET out == PassOf(i)
        IN  out.err = "" =>
              /\ StagedNow(out, Staged)
              /\ \A s \in Overwritten : out.studies[s].lastFetched = now
              /\ out.ret = [num_new_studies     |-> Cardinality(Inserted(out)),
                            num_updates_fetched |-> Cardinality(Staged) + Cardinality(Overwritten),
                            num_renamed_studies |-> Cardinality(Renamed(out)),
                            num_removed_studies |-> Cardinality(Removed(out))]

\* C7, witness: a pass renames a study and stages its update, and flags or
\* deletes the other study.
C7_Witness ==
    LET out == PassOutcome(Tables, 0, FALSE)
    IN  /\ out.err = ""
        /\ Staged # {}
        /\ out.ret.num_updates_fetched = 1
        /\ out.ret.num_renamed_studies = 1
        /\ out.ret.num_removed_studies = 1

\* The pass run again at the time clock on the tables the pass out left.
Rerun(out, clock) == PassOutcome([PassTables(out) EXCEPT !.now = clock], 0, FALSE)

ZeroCounts ==
    [num_new_studies |-> 0, num_updates_fetched |-> 0,
     num_renamed_studies |-> 0, num_removed_studies |-> 0]

SameTables(a, b) ==
    a.studies = b.studies /\ a.updates = b.updates /\ a.moves = b.moves

Quiet(out1) ==
    \A clock \in now..MaxTime :
        LET out2 == Rerun(out1, clock)
        IN  out2.err = "" /\ out2.ret = ZeroCounts /\ SameTables(out2, out1)

NoStampAhead == \A s \in DOMAIN lichess : lichess[s].updatedAt <= now

C9_IncludeTwiceFails ==
    \A s \in DOMAIN studies : studies[s].included =>
        \A u \in Users, repForWhite \in BOOLEAN, txFails \in BOOLEAN :
            LET out == IncludeOutcome(Tables, s, u, repForWhite, txFails)
            IN  out.err # "" /\ SameTables(out, Tables)

\* C9, witness: a study is included with its moves, and including it again,
\* for the other side, throws "study is already included".
C9_Witness ==
    \E s \in DOMAIN studies :
        /\ studies[s].included
        /\ MovesOf(moves, s) # {}
        /\ IncludeOutcome(Tables, s, Owner, ~studies[s].repForWhite, FALSE).err
             = "study is already included"

\* The moves connected to study s and to no other study.
OnlyOf(s) == {k \in DOMAIN moves : moves[k].studies = {s}}

\* C10: unincludeStudy by the owner disconnects every move of the study, clears
\* included, soft-deletes exactly the moves no other study is connected to, and
\* returns their number.
C10_UnincludeDetachesAll ==
    \A s \in DOMAIN studies :
        LET out == UnincludeOutcome(Tables, s, Owner, FALSE)
        IN  /\ out.err = ""
            /\ out.studies = [studies EXCEPT ![s].included = FALSE]
            /\ out.updates = updates
            /\ DOMAIN out.moves = DOMAIN moves
            /\ \A k \in DOMAIN moves :
                 /\ out.moves[k].studies = moves[k].studies \ {s}
                 /\ out.moves[k].deleted = (moves[k].deleted \/ k \in OnlyOf(s))
            /\ out.ret = Cardinality(OnlyOf(s))

\* C10, witness: an included study has a move of its own and a move it shares;
\* unincluding it returns 1.
C10_Witness ==
    \E s \in DOMAIN studies :
        /\ studies[s].included
        /\ OnlyOf(s) # {}
        /\ \E k \in DOMAIN moves : moves[k].studies = Studies
        /\ UnincludeOutcome(Tables, s, Owner, FALSE).ret = 1

\* The moves after study s is disconnected from every move and the moves it
\* alone was connected to are soft-deleted.
Detached(s) ==
    [k \in DOMAIN moves |->
        [moves[k] EXCEPT !.studies = @ \ {s}, !.deleted = (@ \/ k \in OnlyOf(s))]]

\* C11: deleteStudy on an included study first unincludes it, as a commit of
\* its own (it stands when the delete that follows fails), then deletes the
\* row: after it the study is gone, no move is connected to it, exactly the
\* moves it alone was connected to are soft-deleted, and the moves it shared
\* keep their deleted flag.
C11_DeleteUnincludesFirst ==
    \A s \in DOMAIN studies : studies[s].included =>
        LET done == DeleteOutcome(Tables, s, Owner, "")
            half == DeleteOutcome(Tables, s, Owner, "delete")
            none == DeleteOutcome(Tables, s, Owner, "uninclude")
        IN  /\ done.err = ""
            /\ done.studies = Drop(studies, s)
            /\ done.moves = Detached(s)
            /\ half.err # ""
            /\ half.studies = [studies EXCEPT ![s].included = FALSE]
            /\ half.moves = Detached(s)
            /\ none.err # "" /\ SameTables(none, Tables)

\* C11, witness: an included study has a move of its own and a move it shares,
\* and deleteStudy removes it.
C11_Witness ==
    \E s \in DOMAIN studies :
        /\ studies[s].included
        /\ OnlyOf(s) # {}
        /\ \E k \in DOMAIN moves : moves[k].studies = Studies /\ ~moves[k].deleted
        /\ s \notin DOMAIN DeleteOutcome(Tables, s, Owner, "").studies

\* The included studies whose update row a pass wrote.
UpdateWritten(out) ==
    {s \in DOMAIN studies : studies[s].included /\ s \in DOMAIN out.updates
                            /\ (s \in out.fetched \/ s \notin DOMAIN updates)}

\* An update row of study s not older than the lastFetched the study had.
NotOlder(out, s) == out.updates[s].lastModifiedOnLichess >= studies[s].lastFetched

\* C12 as stated: an update row written by a pass or by fetchStudyUpdate called
\* on demand has lastModifiedOnLichess at or after the lastFetched of its study.
C12_UpdateNotOlderThanStudy ==
    /\ \A i \in PassInputs : \A s \in UpdateWritten(PassOf(i)) : NotOlder(PassOf(i), s)
    /\ \A s \in DOMAIN studies :
         LET out == FetchStudyUpdateOutcome(Tables, s, Owner, 0)
         IN  out.err = "" => NotOlder(out, s)

\* C12 as amended: an update row written by a pass has lastModifiedOnLichess
\* after the lastFetched of its study.
C12_PassUpdateNewerThanStudy ==
    \A i \in PassInputs : \A s \in UpdateWritten(PassOf(i)) :
        PassOf(i).updates[s].lastModifiedOnLichess > studies[s].lastFetched

\* C12, witness: a pass writes the update row of an included study, while
\* another included study, fetched on demand, gets an update row older than its
\* lastFetched.
C12_Witness ==
    /\ UpdateWritten(PassOutcome(Tables, 0, FALSE)) # {}
    /\ \E s \in DOMAIN studies :
         LET out == FetchStudyUpdateOutcome(Tables, s, Owner, 0)
         IN  out.err = "" /\ ~NotOlder(out, s)

\* The keys of the moves of a list.
KeysOf(seq) == {MoveKey(m) : m \in Range(seq)}

\* The orders a list of distinct moves can be given in.
OrdersOf(seq) ==
    {q \in [1..Len(seq) -> Range(seq)] :
        \A i, j \in 1..Len(seq) : i # j => q[i] # q[j]}

ZeroMoveCounts ==
    [numNewMoves |-> 0, numNewOwnMoves |-> 0, numRemovedMoves |-> 0, numRemovedOwnMoves |-> 0]

\* The parsed lists the moves of a study are compared with: any PGN, side and
\* choice of variants.
ParsedLists ==
    {pgndbToMoves(pgn, side, ov) : pgn \in Pgns, side \in BOOLEAN, ov \in BOOLEAN}

\* C13: when the moves of a study, in any order, and a parsed list have the
\* same keys, compareMovesLists returns no new and no removed move and the four
\* counts of the update are 0.
C13_SameKeysNoDiff ==
    \A s \in DOMAIN studies : \A um \in ParsedLists :
        KeysOf(um) = MovesOf(moves, s) =>
            \A old \in OrdersOf(StudyMoves(moves, s)) :
                /\ compareMovesLists(old, um) = [new_moves |-> <<>>, removed_moves |-> <<>>]
                /\ MoveCounts(old, um) = ZeroMoveCounts

\* C13, witness: a study has two moves or more, and there is a parsed list with
\* the same keys and an order of the study's moves that is not the order of
\* that list.
C13_Witness ==
    \E s \in DOMAIN studies : \E um \in ParsedLists :
        /\ Len(um) >= 2
        /\ KeysOf(um) = MovesOf(moves, s)
        /\ \E old \in OrdersOf(StudyMoves(moves, s)) :
             /\ \E i \in 1..Len(um) : MoveKey(old[i]) # MoveKey(um[i])
             /\ MoveCounts(old, um) = ZeroMoveCounts

\* C14: a pass leaves the moves, their deleted flags and their connections to
\* studies as they were, whatever it does to the studies and whether it ends
\* well or not.
C14_PassKeepsMoves ==
    \A i \in PassInputs : PassOf(i).moves = moves

\* C14, witness: with moves in the graph, a pass stages an update for an
\* included study and deletes a study that is not included.
C14_Witness ==
    LET out == PassOutcome(Tables, 0, FALSE)
    IN  /\ \E k \in DOMAIN moves : moves[k].studies # {}
        /\ out.err = ""
        /\ UpdateWritten(out) # {}
        /\ (DOMAIN studies) \ (DOMAIN out.studies) # {}
        /\ out.moves = moves

\* C15: after a pass that returns, a study that exists is flagged
\* removedOnLichess exactly when Lichess did not report it, and a study that is
\* not included and was not reported exists no more.
C15_FlagIffAbsent ==
    \A i \in PassInputs :
        LET out == PassOf(i)
        IN  out.err = "" =>
              /\ \A s \in DOMAIN out.studies :
                   out.studies[s].removedOnLichess <=> s \notin DOMAIN lichess
              /\ \A s \in DOMAIN studies :
                   (s \notin DOMAIN lichess /\ ~studies[s].included) => s \notin DOMAIN out.studies

\* C15, witness: a flagged study that Lichess reports again and an included
\* study, not flagged, that Lichess reports no more; the pass returns.
C15_Witness ==
    /\ \E s \in (DOMAIN studies) \cap (DOMAIN lichess) : studies[s].removedOnLichess
    /\ \E s \in (DOMAIN studies) \ (DOMAIN lichess) :
         studies[s].included /\ ~studies[s].removedOnLichess
    /\ PassOutcome(Tables, 0, FALSE).err = ""

\* The included studies whose PGN on Lichess is the PGN they were included with.
SameContent == {s \in (DOMAIN studies) \cap (DOMAIN lichess) :
                   studies[s].included /\ lichess[s].pgn = studies[s].pgn}

\* C16: when the PGN fetched for an included study is the PGN it was included
\* with, the update fetchStudyUpdate writes counts no new and no removed move.
C16_SameContentNoDiff ==
    \A s \in SameContent :
        LET out == FetchStudyUpdateOutcome(Tables, s, Owner, 0)
        IN  /\ out.err = ""
            /\ out.updates[s].numNewMoves = 0
            /\ out.updates[s].numRemovedMoves = 0

\* C16, the path: an included study whose PGN has not changed gets an update
\* that counts new moves.
C16_SpuriousNewMoves ==
    \E s \in SameContent :
        FetchStudyUpdateOutcome(Tables, s, Owner, 0).updates[s].numNewMoves > 0

\* Every includeStudy and unincludeStudy that was called has returned.
AllReturned == DOMAIN pending.includes = {} /\ DOMAIN pending.unincludes = {}

\* C17: when the overlapping calls of includeStudy and unincludeStudy on
\* different studies have all returned, a move is soft-deleted exactly when no
\* study is connected to it.
C17_DeletedIffOrphanAfterOverlap ==
    AllReturned => \A k \in DOMAIN moves : moves[k].deleted <=> moves[k].studies = {}

\* C17, the path: all calls have returned and a move that no study is
\* connected to is not soft-deleted.
C17_LiveOrphan ==
    AllReturned /\ \E k \in DOMAIN moves : moves[k].studies = {} /\ ~moves[k].deleted

\* The tables the pass of request r leaves when it goes on from here.
PassWriteOf(r) == PassRun(pending.passes[r], Tables, 0, FALSE)

\* C18: whatever was included since a pass read existing_studies, the pass,
\* when it goes on, deletes no study that is included by then and leaves no
\* live move without a study.
C18_PassSparesStudyIncludedMeanwhile ==
    \A r \in DOMAIN pending.passes :
        /\ \A s \in DOMAIN studies :
             studies[s].included => s \in DOMAIN PassWriteOf(r).studies
        /\ \A k \in DOMAIN moves :
             PassWriteOf(r).moves[k].studies = {} => PassWriteOf(r).moves[k].deleted

\* C18, the path: a study was not included when the pass read it, is included
\* now, and the pass deletes it, leaving a move of it live.
C18_IncludedStudyDeleted ==
    \E r \in DOMAIN pending.passes : \E s \in DOMAIN studies :
        /\ s \in DOMAIN pending.passes[r].studies
        /\ ~pending.passes[r].studies[s].included
        /\ studies[s].included
        /\ s \notin DOMAIN PassWriteOf(r).studies
        /\ \E k \in MovesOf(moves, s) :
             PassWriteOf(r).moves[k].studies = {} /\ ~PassWriteOf(r).moves[k].deleted

\* C19: two calls of fetchAllStudyChangesUnlessFetchedRecently never have their
\* passes in progress together, so no two passes insert the same study.
C19_OnePassAtATime ==
    /\ Cardinality(DOMAIN pending.passes) <= 1
    /\ \A r1, r2 \in DOMAIN pending.passes :
         r1 # r2 => \A s \in DOMAIN lichess :
             s \in (DOMAIN pending.passes[r1].studies) \cup (DOMAIN pending.passes[r2].studies)

\* C19, the path: two passes are in progress, and both have read
\* existing_studies without a study that Lichess reports.
C19_TwoPassesInsertSameStudy ==
    \E s \in DOMAIN lichess :
        /\ DOMAIN pending.passes = Requests
        /\ \A r \in Requests : s \notin DOMAIN pending.passes[r].studies

\* The studies whose PGN a pass fetches: the new ones and the modified ones.
Fetches == ((DOMAIN lichess) \ (DOMAIN studies)) \cup Staged \cup Overwritten

\* A pass that fails throws and does not write the timestamp of the user.
FailedPassThrows ==
    \A i \in PassInputs :
        /\ (i.txFails \/ i.failFetch \in Fetches) => PassOf(i).err # ""
        /\ PassOf(i).err # "" => ~PassOf(i).checked

\* A step writes the timestamp of the user only as a pass that returns: it
\* leaves the tables of that pass and the timestamp is the clock.
TimestampStep ==
    lastRepertoireUpdateCheck' # lastRepertoireUpdateCheck =>
        /\ lastRepertoireUpdateCheck' = now
        /\ \E i \in PassInputs :
             /\ PassOf(i).err = ""
             /\ studies' = PassOf(i).studies
             /\ updates' = PassOf(i).updates
             /\ moves' = PassOf(i).moves

\* C20: lastRepertoireUpdateCheck is written only by a pass that returns; a
\* pass whose fetch or whose transaction fails throws and leaves it as it was.
C20_TimestampOnlyOnSuccess == []FailedPassThrows /\ [][TimestampStep]_vars

\* C20, witness: the user was checked before, and now a pass fails on a fetch
\* and a pass fails on its transaction, while the test of
\* fetchAllStudyChangesUnlessFetchedRecently lets a pass run.
C20_Witness ==
    /\ lastRepertoireUpdateCheck # -1
    /\ NotFetchedRecently(0)
    /\ \E d \in Studies : PassOutcome(Tables, d, FALSE).err = "fetch"
    /\ PassOutcome(Tables, 0, TRUE).err = "Exception renaming study"

=============================================================================
